---- MODULE Spec2Model ----
(***************************************************************************)
(* Connection pool of boost::mysql (impl/connection_pool.hpp): the pool's  *)
(* get_connection coroutine, the per-connection setup coroutine with its   *)
(* retry loop, the wait on the condition variable with a timeout, and the  *)
(* release of a borrowed connection.                                       *)
(*                                                                         *)
(* Scheduling: one executor, cooperative tasks.  Every action is the code  *)
(* a task runs between two suspension points (BOOST_ASIO_CORO_YIELD), or   *)
(* one event of the environment (the mutex is granted, a timer fires).     *)
(* The outcome of an asynchronous operation is chosen when it completes.   *)
(***************************************************************************)
EXTENDS Integers, Sequences, FiniteSets, TLC

(* Bounds of the model. *)
NumTasks == 2
MaxCap == 2
MaxFaults == 2

MaxConns == 4

(* The longest sequence of read_row outcomes a resultset is made with, and *)
(* the largest count fetch_many is called with.                            *)
MaxFeed == 3
MaxCount == 2

(* setup_op::max_num_tries *)
max_num_tries == 10

Tasks == 1..NumTasks

(* pooled_connection::state_t *)
state_t == {"not_connected", "iddle", "pending_reset", "in_use"}

(* Error codes a backoff timer wait can complete with. *)
TimerErrors == {"operation_aborted", "timer_error"}

(* Error codes async_connect can complete with: a network error, or an     *)
(* error reported by the server during the handshake (diagnostics set).    *)
ConnectErrors == {"connect_error", "server_error"}

VARIABLES
    conns,      \* connection_pool's entries: sequence of pooled_connection
    mtx,        \* connection_pool::mtx_: the task whose lock_guard owns it, 0 if free
    op,         \* per task: the get_connection_op / setup_op it runs
    faults,     \* failures the environment may still inject
    notifies,   \* number of notify_one calls made on connection_pool::cv_
    cobj,       \* the connection objects of a caller's scope (c1, c2, ...):
                \* -1 not constructed, 0 no channel, k > 0 owns channel k
    rset        \* the resultset a caller fetches rows from, with the fetch
                \* operation that runs on it

vars == <<conns, mtx, op, faults, notifies, cobj, rset>>

N == Len(conns)

(* Positions of setup_op's coroutine: the operation it is suspended on. *)
SetupPcs == {"resolve", "sleep_resolve", "connect", "sleep_connect",
             "ping", "close", "sleep_ping"}

----------------------------------------------------------------------------
(* The failures the environment injects are bounded to keep the model     *)
(* finite.  A pool of one entry, where a single setup runs at a time, gets *)
(* enough of them to exhaust one retry budget.                             *)
FaultBudget(n) == IF n = 1 THEN max_num_tries + MaxFaults ELSE MaxFaults

Fault == faults > 0 /\ faults' = faults - 1

(* The first failure of a setup run is remembered, every failure counted. *)
failed(r, what) ==
    [r EXCEPT !.fails = @ + 1,
              !.fail1 = IF @ = "none" THEN what ELSE @]

(* pooled_connection::pooled_connection: a fresh entry. conn_ is the       *)
(* identity (generation) of the session object the entry owns; pool_,      *)
(* resolver_ and timer_ are the identities of the objects the constructor  *)
(* sets up.                                                                *)
pooled_connection(st) ==
    [state_ |-> st, locked_ |-> FALSE, conn_ |-> 0,
     pool_ |-> 0, resolver_ |-> 0, timer_ |-> 0]

(* async_get_connection: a get_connection_op (conn_ = nullptr) that has    *)
(* run to its async_lock.  diag is the caller's diagnostics object, which  *)
(* may hold the message of an earlier operation.                           *)
get_connection_op ==
    [pc |-> "lock", conn |-> 0, num_tries |-> 0,
     wait |-> "none", ec |-> "pending", ret |-> 0, diag |-> "set",
     \* the error code the task's coroutine (get_connection_op, or setup_op
     \* while setup runs) was last resumed with; err = {} at the first call
     err |-> "success",
     \* what a mock session would record during the task's setup run
     attempts |-> 0, sleeps |-> 0, fails |-> 0, fail1 |-> "none",
     start |-> "none", sess0 |-> 0, conn_sess |-> -1]

(* The connection objects a scope may declare, none constructed yet; the   *)
(* pool's callers declare none.                                            *)
ConnNames == 1..MaxConns

NoConnections == [i \in ConnNames |-> -1]

(* The pool's callers have run no query: there is no resultset. *)
NoResultset == <<>>

Init ==
    /\ \E n \in 1..MaxCap :
          /\ conns \in [1..n -> {pooled_connection(s) :
                                   s \in state_t \ {"in_use"}}]
          /\ faults = FaultBudget(n)
    /\ mtx = 0
    /\ op = [t \in Tasks |-> get_connection_op]
    /\ notifies = 0
    /\ cobj = NoConnections
    /\ rset = NoResultset

----------------------------------------------------------------------------
(* connection_pool::find_connection: first entry, in pool order, that is   *)
(* not locked and not in use; 0 (nullptr) when there is none.              *)
(* Faulty variant of Eligible: the locked flag is not looked at. *)
Eligible_ignores_locked(c, e) ==
    c[e].state_ \in {"not_connected", "iddle", "pending_reset"}

Eligible(c, e) ==
    /\ ~c[e].locked_
    /\ c[e].state_ \in {"not_connected", "iddle", "pending_reset"}

(* Faulty variant of find_connection: the last entry that fits, not the    *)
(* first.                                                                  *)
find_connection_last_fit(c) ==
    IF \E e \in 1..Len(c) : Eligible(c, e)
    THEN CHOOSE e \in 1..Len(c) :
            /\ Eligible(c, e)
            /\ \A f \in (e + 1)..Len(c) : ~Eligible(c, f)
    ELSE 0

find_connection(c) ==
    IF \E e \in 1..Len(c) : Eligible(c, e)
    THEN CHOOSE e \in 1..Len(c) :
            /\ Eligible(c, e)
            /\ \A f \in 1..(e - 1) : ~Eligible(c, f)
    ELSE 0

(* Faulty variant of mark_locked: the entry is selected without being marked. *)
mark_locked_forgotten(c, e) == c

(* get_connection_op line 320: conn_->locked_ = true *)
mark_locked(c, e) == [c EXCEPT ![e].locked_ = TRUE]

(* Faulty variant of deleter: the guard leaves the flag as it is. *)
deleter_keeps_flag(c, e) == c

(* setup_op::deleter, run by g_.reset() in setup_op::complete *)
deleter(c, e) == [c EXCEPT ![e].locked_ = FALSE]

(* The position of a call whose completion handler is invoked: done, or    *)
(* completed_twice if the handler had been invoked before.                 *)
handler_called(pc) == IF pc = "done" THEN "completed_twice" ELSE "done"

(* Faulty variant of get_connection_complete: no entry is handed out, not   *)
(* even on success.                                                        *)
get_connection_complete_never_conn(r, err) ==
    [r EXCEPT !.pc = "done", !.err = err, !.ec = err, !.ret = 0]

(* Faulty variant of get_connection_complete: the entry is handed out on error too. *)
get_connection_complete_always_conn(r, err) ==
    [r EXCEPT !.pc = "done", !.err = err, !.ec = err, !.ret = r.conn]

(* get_connection_op lines 325-333: the completion of async_setup resumes  *)
(* the coroutine, which completes with (err, nullptr) or (success, conn_). *)
get_connection_complete(r, err) ==
    IF err # "success"
    THEN [r EXCEPT !.pc = handler_called(@), !.err = err, !.ec = err,
                   !.ret = 0]
    ELSE [r EXCEPT !.pc = handler_called(@), !.err = err, !.ec = "success",
                   !.ret = r.conn]

(* Faulty variant of complete: the guard is released (disarmed), not       *)
(* reset, so that the deleter does not run.                                *)
complete_guard_released(r, c, err) ==
    <<get_connection_complete(r, err), c>>

(* setup_op::complete: fire the guard, then complete the composed          *)
(* operation. The result is the pair <<task record, entries>>.             *)
complete(r, c, err) ==
    <<get_connection_complete(r, err), deleter(c, r.conn)>>

(* Faulty variant of yield_break: a plain break, which leaves the for loop  *)
(* only, so that control reaches the completion at line 189.               *)
break_out_of_loop(pair) ==
    complete(pair[1], pair[2], "pool_retries_exhausted")

(* BOOST_ASIO_CORO_YIELD break, the statement after every completion       *)
(* inside the for loop: the coroutine is terminated and control leaves its *)
(* body, so nothing after the loop runs.  pair is what the completion left.*)
yield_break(pair) == pair

(* Faulty variant of complete_ok: the diagnostics are left as they were. *)
complete_ok_keeps_diag(r, c) ==
    complete(r, [c EXCEPT ![r.conn].state_ = "in_use"], "success")

(* Faulty variant of complete_ok: state_ is left as it was. *)
complete_ok_keeps_state(r, c) ==
    complete([r EXCEPT !.diag = "empty"], c, "success")

(* setup_op::complete_ok *)
complete_ok(r, c) ==
    complete([r EXCEPT !.diag = "empty"],
             [c EXCEPT ![r.conn].state_ = "in_use"],
             "success")

(* Faulty variant of loop_cond: off by one. *)
loop_cond_off_by_one(n) == n <= max_num_tries

(* The for loop's condition, line 109. *)
loop_cond(n) == n < max_num_tries

(* Faulty variant of for_loop: a pending_reset entry is probed with a ping *)
(* like an idle one.                                                       *)
RECURSIVE for_loop_probes_pending_reset(_, _, _)
for_loop_probes_pending_reset(r, c, n) ==
    LET rn == [r EXCEPT !.num_tries = n]
        st == c[r.conn].state_
    IN  IF ~loop_cond(n)
        THEN complete(rn, c, "pool_retries_exhausted")
        ELSE IF st = "not_connected"
        THEN <<[rn EXCEPT !.pc = "resolve", !.attempts = @ + 1], c>>
        ELSE IF st \in {"iddle", "pending_reset"}
        THEN <<[rn EXCEPT !.pc = "ping", !.attempts = @ + 1], c>>
        ELSE for_loop_probes_pending_reset(r, c, n + 1)

(* setup_op's for loop from its condition, with num_tries_ = n: runs to    *)
(* the next suspension point or to the completion.  An entry in no branch  *)
(* (in_use) falls through to ++num_tries_.                                 *)
RECURSIVE for_loop(_, _, _)
for_loop(r, c, n) ==
    LET rn == [r EXCEPT !.num_tries = n]
        st == c[r.conn].state_
    IN  IF ~loop_cond(n)
        THEN complete(rn, c, "pool_retries_exhausted")
        ELSE IF st = "not_connected"
        THEN <<[rn EXCEPT !.pc = "resolve", !.attempts = @ + 1], c>>
        ELSE IF st = "pending_reset"
        THEN yield_break(complete_ok([rn EXCEPT !.attempts = @ + 1], c))
        ELSE IF st = "iddle"
        THEN <<[rn EXCEPT !.pc = "ping", !.attempts = @ + 1], c>>
        ELSE for_loop(r, c, n + 1)

(* `continue`: ++num_tries_, then the loop condition. *)
continue(r, c) == for_loop(r, c, r.num_tries + 1)

(* Faulty variant of backoff: the timer is armed and waited on twice. *)
backoff_twice(r, label) == [r EXCEPT !.pc = label, !.sleeps = @ + 2]

(* timer_.expires_after(between_tries); yield timer_.async_wait *)
backoff(r, label) == [r EXCEPT !.pc = label, !.sleeps = @ + 1]

(* Faulty variant of recreate: the entry with its new session is marked    *)
(* pending_reset.                                                          *)
recreate_to_pending_reset(c, e) ==
    [c EXCEPT ![e].conn_ = @ + 1, ![e].state_ = "pending_reset"]

(* Faulty variant of recreate: the whole entry is built anew around the    *)
(* new session.                                                            *)
recreate_whole_entry(c, e) ==
    [c EXCEPT ![e] = [pooled_connection("not_connected") EXCEPT
                         !.conn_ = c[e].conn_ + 1,
                         !.timer_ = c[e].timer_ + 1,
                         !.resolver_ = c[e].resolver_ + 1]]

(* Faulty variant of recreate: the session object is kept. *)
recreate_keeps_session(c, e) == [c EXCEPT ![e].state_ = "not_connected"]

(* Lines 168-174: conn_.conn_ = tcp_ssl_connection(...), a new session     *)
(* object, and state_ = not_connected.                                     *)
recreate(c, e) == [c EXCEPT ![e].conn_ = @ + 1, ![e].state_ = "not_connected"]

(* async_setup: a new setup_op (num_tries_ = 0, guard armed) started on    *)
(* the entry the task has selected.                                        *)
async_setup(r, c) ==
    for_loop([r EXCEPT !.start = c[r.conn].state_,
                       !.sess0 = c[r.conn].conn_,
                       !.attempts = 0, !.sleeps = 0, !.err = "success",
                       !.fails = 0, !.fail1 = "none", !.conn_sess = -1],
             c, 0)

(* Install the pair an operator above computed. *)
Install(t, pair) ==
    /\ op' = [op EXCEPT ![t] = pair[1]]
    /\ conns' = pair[2]

----------------------------------------------------------------------------
(* boost::sam::async_lock completes: the mutex is granted and the handler  *)
(* is posted holding a lock_guard.                                         *)
AsyncLockGranted(t) ==
    /\ op[t].pc = "lock"
    /\ mtx = 0
    /\ mtx' = t
    /\ op' = [op EXCEPT ![t].pc = "locked", ![t].err = "success"]
    /\ UNCHANGED <<conns, faults, notifies, cobj, rset>>

(* async_lock completes with an error (cancelled): the handler is posted   *)
(* with an empty lock_guard; the coroutine does not look at err.           *)
AsyncLockFailed(t) ==
    /\ op[t].pc = "lock"
    /\ Fault
    /\ op' = [op EXCEPT ![t].pc = "locked", ![t].err = "operation_aborted"]
    /\ UNCHANGED <<conns, mtx, notifies, cobj, rset>>

(* Faulty variant of reset_lockg: the guard is kept across async_setup. *)
reset_lockg_forgotten(m, t) == m

(* Line 321, lockg = boost::sam::lock_guard(): the mutex is released if    *)
(* the guard owns it.                                                      *)
reset_lockg(m, t) == IF m = t THEN 0 ELSE m

(* get_connection_op resumed after async_lock, lines 315-337.  When no     *)
(* entry is found the guard, a parameter, is destroyed on return, after    *)
(* the wait has been started.                                              *)
FindConnection(t) ==
    /\ op[t].pc = "locked"
    /\ LET e == find_connection(conns) IN
         IF e # 0
         THEN Install(t, async_setup([op[t] EXCEPT !.conn = e],
                                     mark_locked(conns, e)))
         ELSE /\ op' = [op EXCEPT ![t].pc = "wait", ![t].conn = 0,
                                  ![t].wait = "armed"]
              /\ UNCHANGED conns
    /\ mtx' = IF find_connection(conns) # 0
              THEN reset_lockg(mtx, t)
              ELSE (IF mtx = t THEN 0 ELSE mtx)
    /\ UNCHANGED <<faults, notifies, cobj, rset>>

----------------------------------------------------------------------------
(* setup_op resumed after async_resolve, lines 119-133. *)
ResolveDone(t) ==
    /\ op[t].pc = "resolve"
    /\ \/ /\ Fault
          /\ op' = [op EXCEPT ![t] =
                       backoff(failed([@ EXCEPT !.err = "resolve_error"],
                                      "resolve"), "sleep_resolve")]
       \/ /\ op' = [op EXCEPT ![t].pc = "connect", ![t].err = "success",
                              ![t].conn_sess = conns[op[t].conn].conn_]
          /\ UNCHANGED faults
    /\ UNCHANGED <<conns, mtx, notifies, cobj, rset>>

(* Faulty variant of SleepResolveDone: the timer's error ends the setup,   *)
(* as it does in the two other branches.                                   *)
SleepResolveDone_checks_err(t) ==
    /\ op[t].pc = "sleep_resolve"
    /\ \/ \E err \in TimerErrors : Install(t, complete(op[t], conns, err))
       \/ Install(t, continue([op[t] EXCEPT !.err = "success"], conns))
    /\ UNCHANGED <<mtx, faults, notifies, cobj, rset>>

(* setup_op resumed after the backoff of a failed resolve, lines 123-124:  *)
(* the timer's error is not looked at.                                     *)
SleepResolveDone(t) ==
    /\ op[t].pc = "sleep_resolve"
    /\ \E err \in {"success"} \cup TimerErrors :
          Install(t, continue([op[t] EXCEPT !.err = err], conns))
    /\ UNCHANGED <<mtx, faults, notifies, cobj, rset>>

(* Faulty variant of ConnectDone: a failed connect is retried at once,     *)
(* without a backoff wait.                                                 *)
ConnectDone_retries_at_once(t) ==
    /\ op[t].pc = "connect"
    /\ \/ /\ Fault
          /\ \E err \in ConnectErrors :
                Install(t, continue(failed([op[t] EXCEPT !.err = err],
                                           "connect"), conns))
       \/ /\ Install(t, yield_break(complete_ok(op[t], conns)))
          /\ UNCHANGED faults
    /\ UNCHANGED <<mtx, notifies, cobj, rset>>

(* Faulty variant of ConnectDone: a failed connect ends the setup with the *)
(* connect's error.                                                        *)
ConnectDone_surfaces_error(t) ==
    /\ op[t].pc = "connect"
    /\ \/ /\ Fault
          /\ \E err \in ConnectErrors :
                Install(t, complete(failed(op[t], "connect"), conns, err))
       \/ /\ Install(t, yield_break(complete_ok(op[t], conns)))
          /\ UNCHANGED faults
    /\ UNCHANGED <<mtx, notifies, cobj, rset>>

(* setup_op resumed after async_connect, lines 134-147. *)
ConnectDone(t) ==
    /\ op[t].pc = "connect"
    /\ \/ /\ Fault
          /\ \E err \in ConnectErrors :
                op' = [op EXCEPT ![t] =
                          backoff([failed([@ EXCEPT !.err = err], "connect")
                                      EXCEPT
                                      !.diag = IF err = "server_error"
                                               THEN "set" ELSE @],
                                  "sleep_connect")]
          /\ UNCHANGED conns
       \/ /\ Install(t, yield_break(complete_ok(op[t], conns)))
          /\ UNCHANGED faults
    /\ UNCHANGED <<mtx, notifies, cobj, rset>>

(* setup_op resumed after the backoff of a failed connect, lines 138-143. *)
SleepConnectDone(t) ==
    /\ op[t].pc = "sleep_connect"
    /\ \/ /\ Fault
          /\ \E err \in TimerErrors :
                Install(t, yield_break(complete(op[t], conns, err)))
       \/ /\ Install(t, continue([op[t] EXCEPT !.err = "success"], conns))
          /\ UNCHANGED faults
    /\ UNCHANGED <<mtx, notifies, cobj, rset>>

(* setup_op resumed after async_ping, lines 160-163 and 184-185. *)
PingDone(t) ==
    /\ op[t].pc = "ping"
    /\ \/ /\ Fault
          /\ op' = [op EXCEPT ![t] = [failed(@, "ping") EXCEPT
                                         !.pc = "close", !.err = "ping_error"]]
          /\ UNCHANGED conns
       \/ /\ Install(t, yield_break(complete_ok(op[t], conns)))
          /\ UNCHANGED faults
    /\ UNCHANGED <<mtx, notifies, cobj, rset>>

(* setup_op resumed after async_close, lines 165-176: whatever close       *)
(* reported, the session object is replaced and the entry is marked        *)
(* not_connected.                                                          *)
CloseDone(t) ==
    /\ op[t].pc = "close"
    /\ \E err \in {"success", "close_error"} :
          /\ conns' = recreate(conns, op[t].conn)
          /\ op' = [op EXCEPT ![t] = backoff([@ EXCEPT !.err = err],
                                              "sleep_ping")]
    /\ UNCHANGED <<mtx, faults, notifies, cobj, rset>>

(* Faulty variant of SleepPingDone: the reconnection starts without       *)
(* ++num_tries_.                                                           *)
SleepPingDone_keeps_num_tries(t) ==
    /\ op[t].pc = "sleep_ping"
    /\ \/ /\ Fault
          /\ \E err \in TimerErrors :
                Install(t, yield_break(complete(op[t], conns, err)))
       \/ /\ Install(t, for_loop([op[t] EXCEPT !.err = "success"], conns,
                                  op[t].num_tries))
          /\ UNCHANGED faults
    /\ UNCHANGED <<mtx, notifies, cobj, rset>>

(* setup_op resumed after the backoff of a failed ping, lines 177-182. *)
SleepPingDone(t) ==
    /\ op[t].pc = "sleep_ping"
    /\ \/ /\ Fault
          /\ \E err \in TimerErrors :
                Install(t, yield_break(complete(op[t], conns, err)))
       \/ /\ Install(t, continue([op[t] EXCEPT !.err = "success"], conns))
          /\ UNCHANGED faults
    /\ UNCHANGED <<mtx, notifies, cobj, rset>>

----------------------------------------------------------------------------
(* initiate_wait's timer (wait_timeout) fires first: wait_for_one cancels  *)
(* the wait on the condition variable.                                     *)
TimerFired(t) ==
    /\ op[t].pc = "wait"
    /\ op[t].wait = "armed"
    /\ op' = [op EXCEPT ![t].wait = "timer"]
    /\ UNCHANGED <<conns, mtx, faults, notifies, cobj, rset>>

(* Faulty variant of intermediate_handler: the timer's own error code     *)
(* (success, it expired) is passed on when the timer came first.           *)
intermediate_handler_passes_ec2(first, ec1, ec2) ==
    IF first = "cv" THEN ec1 ELSE ec2

(* intermediate_handler::operator(), lines 233-237: the error code given   *)
(* to the handler, from which of the two waits completed first.            *)
intermediate_handler(first, ec1, ec2) ==
    IF first = "cv" THEN ec1 ELSE "operation_aborted"

(* Faulty variant of resume_after_wait: a failed wait ends the call. *)
resume_after_wait_checks_err(r, err) ==
    IF err # "success"
    THEN [r EXCEPT !.pc = "done", !.wait = "none", !.err = err, !.ec = err]
    ELSE [r EXCEPT !.pc = "lock", !.wait = "none", !.err = err]

(* get_connection_op resumed after async_wait_for, lines 337-338 and 309-  *)
(* 312: err is not looked at, the loop starts the next async_lock.         *)
resume_after_wait(r, err) ==
    [r EXCEPT !.pc = "lock", !.wait = "none", !.err = err]

(* The parallel group of initiate_wait completes: intermediate_handler,    *)
(* then the coroutine.  The wait that came first completed with success,   *)
(* the other one was cancelled.                                            *)
WaitDone(t) ==
    /\ op[t].pc = "wait"
    /\ op[t].wait \in {"cv", "timer"}
    /\ op' = [op EXCEPT ![t] =
                 resume_after_wait(@,
                    IF op[t].wait = "cv"
                    THEN intermediate_handler("cv", "success",
                                              "operation_aborted")
                    ELSE intermediate_handler("timer", "operation_aborted",
                                              "success"))]
    /\ UNCHANGED <<conns, mtx, faults, notifies, cobj, rset>>

(* condition_variable::notify_one: one of the tasks waiting on cv_ is      *)
(* woken (its timer is cancelled); nothing happens when none waits.        *)
notify_one(o) ==
    LET waiting == {w \in Tasks : o[w].pc = "wait" /\ o[w].wait = "armed"}
    IN  IF waiting = {}
        THEN {o}
        ELSE {[o EXCEPT ![w].wait = "cv"] : w \in waiting}

(* The handle after cleanup has run on it: released, or released_twice     *)
(* when cleanup had run on it before.                                      *)
dropped(pc) == IF pc = "done" THEN "released" ELSE "released_twice"

(* Faulty variant of return_connection: the entry is also made idle, to be *)
(* given out again.                                                        *)
return_connection_to_iddle(t, e) ==
    /\ conns' = [conns EXCEPT ![e].locked_ = FALSE, ![e].state_ = "iddle"]
    /\ op' \in notify_one([op EXCEPT ![t].pc = dropped(@)])
    /\ notifies' = notifies + 1

(* Faulty variant of return_connection: the entry is marked for a reset,   *)
(* to be given out again.                                                  *)
return_connection_to_pending_reset(t, e) ==
    /\ conns' = [conns EXCEPT ![e].locked_ = FALSE,
                              ![e].state_ = "pending_reset"]
    /\ op' \in notify_one([op EXCEPT ![t].pc = dropped(@)])
    /\ notifies' = notifies + 1

(* connection_pool::return_connection *)
return_connection(t, e) ==
    /\ conns' = [conns EXCEPT ![e].locked_ = FALSE]
    /\ op' \in notify_one([op EXCEPT ![t].pc = dropped(@)])
    /\ notifies' = notifies + 1

(* Faulty variant of cleanup: the connection is dropped without being returned. *)
cleanup_without_return(t) ==
    /\ op[t].pc = "done"
    /\ op[t].ret # 0
    /\ op' = [op EXCEPT ![t].pc = "released"]
    /\ UNCHANGED <<conns, mtx, faults, notifies, cobj, rset>>

(* pooled_connection::cleanup, run when the caller drops the connection    *)
(* get_connection gave it.                                                 *)
cleanup(t) ==
    /\ op[t].pc = "done"
    /\ op[t].ret # 0
    /\ return_connection(t, op[t].ret)
    /\ UNCHANGED <<mtx, faults, cobj, rset>>

(* pooled_connection::cleanup run a second time on a connection that was  *)
(* dropped already: nothing in cleanup tells the two calls apart.          *)
cleanup_again(t) ==
    /\ op[t].pc = "released"
    /\ op[t].ret # 0
    /\ return_connection(t, op[t].ret)
    /\ UNCHANGED <<mtx, faults, cobj, rset>>

----------------------------------------------------------------------------
Step(t) ==
    \/ AsyncLockGranted(t)
    \/ AsyncLockFailed(t)
    \/ FindConnection(t)
    \/ ResolveDone(t)
    \/ SleepResolveDone(t)
    \/ ConnectDone(t)
    \/ SleepConnectDone(t)
    \/ PingDone(t)
    \/ CloseDone(t)
    \/ SleepPingDone(t)
    \/ TimerFired(t)
    \/ WaitDone(t)
    \/ cleanup(t)

Next == \E t \in Tasks : Step(t)

Spec == Init /\ [][Next]_vars

(* A fair executor: every task's enabled step is eventually run, every     *)
(* pending operation eventually completes and every timer fires.           *)
FairSpec == Spec /\ \A t \in Tasks : WF_vars(Step(t))

----------------------------------------------------------------------------
(* Vocabulary of the properties. *)

(* Task t runs setup_op on the entry it selected. *)
InSetup(t) == op[t].pc \in SetupPcs

(* Task t was given entry e by get_connection and has not dropped it. *)
Borrows(t, e) == op[t].pc = "done" /\ op[t].ret = e

(* Task t holds entry e: selected for setup, or borrowed. *)
Holds(t, e) == (InSetup(t) /\ op[t].conn = e) \/ Borrows(t, e)

(* get_connection is still running for task t. *)
Pending(t) == op[t].pc \notin {"done", "released"}

(* Task t's get_connection completes with an error in this step. *)
FailsNow(t) ==
    /\ op[t].pc # "done"
    /\ op'[t].pc = "done"
    /\ op'[t].ec # "success"

(* Task t's get_connection has completed with an error. *)
Failed(t) == op[t].pc = "done" /\ op[t].ec # "success"

----------------------------------------------------------------------------
(* C1. Mutual exclusion: in every reachable state no entry is held         *)
(* (selected for setup, or borrowed) by more than one task.                *)
C1_MutualExclusion ==
    \A e \in 1..N : Cardinality({t \in Tasks : Holds(t, e)}) <= 1

(* C1's case: one task is in setup on the only free entry while another    *)
(* task found none and waits.                                              *)
C1_Witness ==
    \E t, u \in Tasks :
        /\ t # u
        /\ InSetup(t)
        /\ conns[op[t].conn].locked_
        /\ op[u].pc = "wait"

(* C2. The claim as stated: an entry whose state is in_use is locked, in   *)
(* particular right after get_connection has succeeded and until the       *)
(* borrow is dropped.  The code fires the guard on success as well.        *)
C2_InUseImpliesLocked ==
    \A e \in 1..N : conns[e].state_ = "in_use" => conns[e].locked_

(* C3. Cancellation safety: in the step in which a get_connection call     *)
(* completes with an error, the entry it had selected is left unlocked.    *)
C3_FailedCallUnlocks ==
    [][\A t \in Tasks : FailsNow(t) => ~conns'[op'[t].conn].locked_]_vars

(* C3's case: one call failed by exhausting its retries and another by a   *)
(* failed backoff sleep.                                                   *)
C3_Witness ==
    \E t, u \in Tasks :
        /\ Failed(t) /\ op[t].ec = "pool_retries_exhausted"
        /\ Failed(u) /\ op[u].ec \in TimerErrors

(* C4 as stated: when setup fails inside get_connection the selected       *)
(* entry's locked flag remains true.                                       *)
C4_LockedRemainsAfterFailure ==
    [][\A t \in Tasks : FailsNow(t) => conns'[op'[t].conn].locked_]_vars

(* C4 as amended: a failed get_connection returns its error with a null    *)
(* entry, so there is no borrow to drop, and the entry it had selected is  *)
(* locked afterwards only while another task has selected it for setup.    *)
C4_FailureLeavesNoHold ==
    \A t \in Tasks :
        Failed(t) =>
            /\ op[t].ret = 0
            /\ op[t].conn # 0
            /\ conns[op[t].conn].locked_ =>
                  \E u \in Tasks \ {t} : InSetup(u) /\ op[u].conn = op[t].conn

(* C4's case: a call failed on a sleep error and a later call has          *)
(* selected the same entry.                                                *)
C4_Witness ==
    \E t, u \in Tasks :
        /\ Failed(t)
        /\ op[t].ec \in TimerErrors
        /\ InSetup(u)
        /\ op[u].conn = op[t].conn
        /\ conns[op[u].conn].locked_

----------------------------------------------------------------------------
(* C5. Waiter wake-up, as stated: in a pool of one entry, once a first     *)
(* caller has dropped its borrow and the network is healthy from then on,  *)
(* a caller waiting on the condition variable eventually completes         *)
(* successfully with that entry.                                           *)
C5_WaiterWakeup ==
    \A u \in Tasks :
        (/\ N = 1
         /\ faults = 0
         /\ \E t \in Tasks : op[t].pc = "released"
         /\ op[u].pc = "wait")
        ~> (op[u].pc = "done" /\ op[u].ec = "success" /\ op[u].ret = 1)

(* C6. Progress, as stated: whenever some entry is unlocked, a pending     *)
(* get_connection call eventually completes.                               *)
C6_Progress ==
    \A u \in Tasks :
        ((\E e \in 1..N : ~conns[e].locked_) /\ Pending(u)) ~> ~Pending(u)

(* C7. Bounded retries: a setup run never makes more than max_num_tries    *)
(* attempts; retry exhaustion is reported after exactly max_num_tries      *)
(* attempts; and a run from not_connected that ended with neither a        *)
(* success nor a sleep error ended in exhaustion, after max_num_tries      *)
(* failed attempts.                                                        *)
C7_BoundedRetries ==
    \A t \in Tasks :
        /\ op[t].attempts <= max_num_tries
        /\ op[t].num_tries <= max_num_tries
        /\ op[t].ec = "pool_retries_exhausted" =>
              op[t].attempts = max_num_tries /\ op[t].num_tries = max_num_tries
        /\ (/\ Failed(t)
            /\ op[t].start = "not_connected"
            /\ op[t].ec \notin TimerErrors) =>
              /\ op[t].ec = "pool_retries_exhausted"
              /\ op[t].attempts = max_num_tries
              /\ op[t].fails = max_num_tries

(* C7's case: a run that started on a not_connected entry and whose        *)
(* connects all failed has ended in exhaustion.                            *)
C7_Witness ==
    \E t \in Tasks :
        /\ Failed(t)
        /\ op[t].ec = "pool_retries_exhausted"
        /\ op[t].start = "not_connected"
        /\ op[t].fail1 = "connect"
        /\ op[t].sleeps = max_num_tries

(* C8. Retry then succeed: a setup run from not_connected whose only       *)
(* failure was its first connect, and whose backoff sleep did not fail,    *)
(* ends in success after exactly 2 attempts and exactly one sleep.         *)
C8_RetryThenSucceed ==
    \A t \in Tasks :
        (/\ ~Pending(t)
         /\ op[t].start = "not_connected"
         /\ op[t].fails = 1
         /\ op[t].fail1 = "connect"
         /\ op[t].ec \notin TimerErrors) =>
            /\ op[t].ec = "success"
            /\ op[t].ret = op[t].conn
            /\ op[t].attempts = 2
            /\ op[t].num_tries = 1
            /\ op[t].sleeps = 1

(* C8's case: such a run has completed. *)
C8_Witness ==
    \E t \in Tasks :
        /\ op[t].pc = "done"
        /\ op[t].ec = "success"
        /\ op[t].start = "not_connected"
        /\ op[t].fails = 1
        /\ op[t].fail1 = "connect"

(* C9. Stale-iddle healing: a failed ping is followed by close; whatever   *)
(* close reports, the session object is replaced and the state goes from   *)
(* iddle to not_connected; a connect of a run that started on an iddle     *)
(* entry is never made on the session the run started with; and such a run *)
(* whose only failure was the ping, and whose sleep did not fail, ends in  *)
(* success on the new session with the entry in_use.                       *)
C9_StaleIddleHealing ==
    [][\A t \in Tasks :
          LET e == op[t].conn IN
          /\ (op[t].pc = "ping" /\ op'[t].pc # "ping") =>
                \/ op'[t].pc = "close" /\ conns' = conns
                \/ op'[t].pc = "done" /\ op'[t].ec = "success"
          /\ (op[t].pc = "close" /\ op'[t] # op[t]) =>
                /\ op'[t].pc = "sleep_ping"
                /\ conns[e].state_ = "iddle"
                /\ conns'[e].state_ = "not_connected"
                /\ conns'[e].conn_ # conns[e].conn_
          /\ (op'[t].start = "iddle" /\ op'[t].conn_sess # -1) =>
                op'[t].conn_sess # op'[t].sess0
          /\ (/\ op'[t].pc = "done"
              /\ op'[t].start = "iddle"
              /\ op'[t].fails = 1
              /\ op'[t].ec \notin TimerErrors) =>
                /\ op'[t].ec = "success"
                /\ op'[t].ret = op'[t].conn
                /\ op'[t].conn_sess = conns'[op'[t].conn].conn_
                /\ op'[t].conn_sess # op'[t].sess0
                /\ conns'[op'[t].conn].state_ = "in_use"
                /\ op'[t].attempts = 2
      ]_vars

(* C9's case: a run that started on an iddle entry, saw its ping fail and  *)
(* then succeeded on a new session.                                        *)
C9_Witness ==
    \E t \in Tasks :
        /\ op[t].pc = "done"
        /\ op[t].ec = "success"
        /\ op[t].start = "iddle"
        /\ op[t].fail1 = "ping"
        /\ op[t].fails = 1
        /\ op[t].conn_sess = op[t].sess0 + 1

(* C10. Release contract: the step that drops a borrow leaves the entry    *)
(* unlocked, changes no entry's state or session, makes exactly one        *)
(* notify_one call, which wakes exactly one of the waiting tasks if any    *)
(* waits, and delivers no error to the task.                               *)
C10_ReleaseContract ==
    [][\A t \in Tasks :
          (op[t].pc = "done" /\ op'[t].pc = "released") =>
             LET e == op[t].ret
                 waiting == {w \in Tasks : op[w].pc = "wait" /\ op[w].wait = "armed"}
                 woken == {w \in waiting : op'[w].wait = "cv"}
             IN  /\ ~conns'[e].locked_
                 /\ \A f \in 1..N :
                       /\ conns'[f].state_ = conns[f].state_
                       /\ conns'[f].conn_ = conns[f].conn_
                       /\ f # e => conns'[f] = conns[f]
                 /\ notifies' = notifies + 1
                 /\ Cardinality(woken) = (IF waiting = {} THEN 0 ELSE 1)
                 /\ \A w \in Tasks \ (woken \cup {t}) : op'[w] = op[w]
                 /\ op'[t] = [op[t] EXCEPT !.pc = "released"]
      ]_vars

(* C10's case: a borrow has been dropped and a waiting task was woken. *)
C10_Witness ==
    \E t, w \in Tasks :
        /\ op[t].pc = "released"
        /\ op[w].pc = "wait"
        /\ op[w].wait = "cv"
        /\ notifies = 1

----------------------------------------------------------------------------
(* The backoff waits of setup.                                             *)
SleepPcs == {"sleep_resolve", "sleep_connect", "sleep_ping"}

(* In this step the backoff wait that task t is suspended in completes.    *)
SleepEnds(t) == op[t].pc \in SleepPcs /\ op'[t] # op[t]

(* In this step the setup of task t ends with err as the call's result.    *)
FatalWith(t, err) == op'[t].pc = "done" /\ op'[t].ec = err

(* C11: in every branch of setup, a backoff wait that is cancelled ends    *)
(* the retries: get_connection completes with the wait's error.            *)
C11_SleepCancelPropagates ==
    [][\A t \in Tasks :
          (SleepEnds(t) /\ op'[t].err = "operation_aborted")
             => FatalWith(t, "operation_aborted")]_vars

(* C12 as stated: a backoff wait that fails with an error other than       *)
(* cancellation is retried after a failed connect, and is fatal after a    *)
(* failed ping.                                                            *)
C12_ConnectSleepRetryable ==
    [][\A t \in Tasks :
          (SleepEnds(t) /\ op'[t].err = "timer_error")
             => /\ op[t].pc = "sleep_connect" => op'[t].pc # "done"
                /\ op[t].pc = "sleep_ping" => FatalWith(t, "timer_error")]_vars

(* C12, amended: a failed backoff wait, cancelled or not, is ignored only  *)
(* after a failed resolve, where the loop goes on (to the next attempt, or *)
(* to pool_retries_exhausted); after a failed connect and after a failed   *)
(* ping it is fatal and its error is the call's result.                    *)
C12_SleepFailureByBranch ==
    [][\A t \in Tasks :
          (SleepEnds(t) /\ op'[t].err \in TimerErrors)
             => IF op[t].pc = "sleep_resolve"
                THEN \/ op'[t].pc = "resolve" /\ op'[t].ec = "pending"
                     \/ FatalWith(t, "pool_retries_exhausted")
                ELSE FatalWith(t, op'[t].err)]_vars

(* A wait that failed without being cancelled was ignored after a failed   *)
(* resolve, and another one ended a call after a failed connect.           *)
C12_Witness ==
    \E t, u \in Tasks :
       /\ op[t].pc = "resolve" /\ op[t].err = "timer_error"
       /\ op[u].pc = "done" /\ op[u].ec = "timer_error"
       /\ op[u].fail1 = "connect"

(* C13: a failed resolve, connect (a server's handshake error included) or *)
(* ping is never the result of get_connection: each one uses up one        *)
(* attempt and is followed by a backoff wait and a retry, and the call     *)
(* completes with success, pool_retries_exhausted or a timer's error only. *)
C13_TransientErrorsSwallowed ==
    \A t \in Tasks :
       /\ op[t].ec \in {"pending", "success", "pool_retries_exhausted"}
                        \cup TimerErrors
       /\ op[t].pc \in {"resolve", "connect", "ping"}
             => /\ op[t].attempts = op[t].fails + 1
                /\ op[t].num_tries = op[t].fails
       /\ op[t].pc \in SleepPcs \cup {"close"}
             => /\ op[t].attempts = op[t].fails
                /\ op[t].ec = "pending"
                /\ op[t].err \notin TimerErrors
       /\ op[t].ec = "success" => op[t].attempts = op[t].fails + 1
       /\ op[t].ec = "pool_retries_exhausted" => op[t].fails = max_num_tries
       /\ op[t].ec \in TimerErrors
             => /\ op[t].attempts = op[t].fails
                /\ op[t].sleeps = op[t].fails

(* A call succeeded on an idle entry at its third attempt, after a failed  *)
(* ping and one more failure.                                              *)
C13_Witness ==
    \E t \in Tasks :
       /\ op[t].ec = "success"
       /\ op[t].start = "iddle"
       /\ op[t].fail1 = "ping"
       /\ op[t].fails = 2
       /\ op[t].attempts = 3
       /\ op[t].diag = "empty"

(* C14: when the wait on the condition variable ends, by a notification or *)
(* by the wait_timeout (operation_aborted), get_connection does not        *)
(* complete: it goes back to acquiring the mutex, to search again.         *)
C14_WaitOutcomeNotSurfaced ==
    [][\A t \in Tasks :
          (op[t].pc = "wait" /\ op'[t].pc # "wait")
             => /\ op'[t].pc = "lock"
                /\ op'[t].ec = "pending"
                /\ op'[t].ret = 0
                /\ op'[t].wait = "none"]_vars

(* A caller whose wait timed out is acquiring the mutex again. *)
C14_Witness ==
    \E t \in Tasks :
       /\ op[t].pc = "lock"
       /\ op[t].err = "operation_aborted"
       /\ op[t].ec = "pending"

(* C15: the wait with timeout completes once, with the outcome of the      *)
(* event that came first: success when the condition variable was          *)
(* notified first, operation_aborted when the timer fired first; the       *)
(* event that comes second changes nothing.                                *)
C15_FirstEventWins ==
    [][\A t \in Tasks :
          /\ (op[t].wait = "cv" /\ op'[t] # op[t])
                => /\ op'[t].wait = "none"
                   /\ op'[t].err = "success"
          /\ (op[t].wait = "timer" /\ op'[t] # op[t])
                => /\ op'[t].wait = "none"
                   /\ op'[t].err = "operation_aborted"
          /\ (op[t].wait = "none" /\ op'[t].wait # "none")
                => op'[t].wait = "armed"]_vars

(* A waiting caller was notified before its timer fired, by the task that  *)
(* released a connection; the wait's completion is due.                    *)
C15_Witness ==
    \E t, u \in Tasks :
       /\ op[t].pc = "released"
       /\ op[u].pc = "wait" /\ op[u].wait = "cv"
       /\ notifies > 0

(* A contended pool: fewer entries than callers, so that a caller is left  *)
(* to search after another one's call has ended, all of them in the same   *)
(* state; MaxFaults failures to come, and a fair executor.                 *)
ContendedInit ==
    /\ \E n \in 1..(NumTasks - 1) : \E s \in state_t \ {"in_use"} :
          conns = [e \in 1..n |-> pooled_connection(s)]
    /\ faults = MaxFaults
    /\ mtx = 0
    /\ op = [t \in Tasks |-> get_connection_op]
    /\ notifies = 0
    /\ cobj = NoConnections
    /\ rset = NoResultset

ContendedFairSpec ==
    /\ ContendedInit /\ [][Next]_vars
    /\ \A t \in Tasks : WF_vars(Step(t))

(* Entry e is the one a search would select, now or once the setup that    *)
(* runs on it has ended: every entry before it is in use.                  *)
NextInOrder(e) == \A f \in 1..(e - 1) : conns[f].state_ = "in_use"

(* Task u's get_connection has yet to search the pool: it is acquiring    *)
(* the mutex, about to search, or waiting for a notification.             *)
Searching(u) == op[u].pc \in {"lock", "locked", "wait"}

(* Some call has completed successfully with entry e. *)
SucceededOn(e) ==
    \E u \in Tasks : op[u].ec = "success" /\ op[u].ret = e

C17_NoMutexDuringSetup ==
    \A t \in Tasks : InSetup(t) => mtx # t

(* While one task's setup is suspended, another task holds the mutex. *)
C17_Witness ==
    \E t, u \in Tasks :
       /\ InSetup(t)
       /\ u # t
       /\ mtx = u
       /\ op[u].pc = "locked"

(* C18: the search for an entry, and every change of an entry's locked     *)
(* flag from false to true, are made by a task that holds the pool mutex,  *)
(* also when the acquisition of the mutex completed with an error.         *)
C18_SearchUnderMutex ==
    [][\A t \in Tasks :
          /\ (op[t].pc = "locked" /\ op'[t].pc # "locked") => mtx = t
          /\ \A e \in 1..N :
                (~conns[e].locked_ /\ conns'[e].locked_ /\ op'[t].conn = e
                   /\ op'[t] # op[t])
                   => mtx = t]_vars

(* Entry e can be given to a caller: nobody has selected it and it is not  *)
(* in use.                                                                 *)
Selectable(e) == ~conns[e].locked_ /\ conns[e].state_ # "in_use"

(* C19: the search is first-fit in pool order: a caller that has searched  *)
(* goes on with the lowest entry that is neither locked nor in use, and    *)
(* waits only when every entry is locked or in use.                        *)
C19_FirstFit ==
    [][\A t \in Tasks :
          (op[t].pc = "locked" /\ op'[t].pc # "locked")
             => IF op'[t].pc = "wait"
                THEN \A e \in 1..N : ~Selectable(e)
                ELSE /\ op'[t].conn \in 1..N
                     /\ Selectable(op'[t].conn)
                     /\ \A f \in 1..(op'[t].conn - 1) : ~Selectable(f)]_vars

(* A caller has been given the second entry by the search, the first one   *)
(* being in use.                                                           *)
C19_Witness ==
    \E t \in Tasks :
       /\ InSetup(t)
       /\ op[t].conn = 2
       /\ conns[1].state_ = "in_use"

(* The tasks that hold an entry, in setup or borrowed. *)
Holders == {t \in Tasks : \E e \in 1..N : Holds(t, e)}

(* C20: the pool keeps the N entries it was built with, and at most N      *)
(* tasks at a time have an entry in setup or borrowed, however many        *)
(* callers there are.                                                      *)
C20_BoundedCapacity ==
    [][/\ Len(conns') = Len(conns)
       /\ Cardinality(Holders') <= Len(conns')]_vars

(* Every entry is held, and one more caller waits. *)
C20_Witness ==
    /\ Cardinality(Holders) = N
    /\ \E u \in Tasks : op[u].pc = "wait"

----------------------------------------------------------------------------
(* A pool of any size whose entries are all in the same state, MaxFaults   *)
(* failures to come, and callers that may run cleanup twice on the         *)
(* connection they were given.                                             *)
UniformInit ==
    /\ \E n \in 1..MaxCap : \E s \in state_t \ {"in_use"} :
          conns = [e \in 1..n |-> pooled_connection(s)]
    /\ faults = MaxFaults
    /\ mtx = 0
    /\ op = [t \in Tasks |-> get_connection_op]
    /\ notifies = 0
    /\ cobj = NoConnections
    /\ rset = NoResultset

ReleaseTwiceNext == Next \/ \E t \in Tasks : cleanup_again(t)

ReleaseTwiceSpec == UniformInit /\ [][ReleaseTwiceNext]_vars

----------------------------------------------------------------------------
(* boost::mysql::connection, as the unit tests of test_connection use it.  *)
(* An object owns a channel or none; valid() tells which.                  *)
valid(v) == v > 0

(* conn_t c;  The object named i gets a channel of its own. *)
init_ctor(c, i) == [c EXCEPT ![i] = i]

(* conn_t c{std::move(other)};  i is the new object, j the source. *)
move_ctor(c, i, j) == [c EXCEPT ![i] = c[j], ![j] = 0]

(* Faulty variant of move_assign: a source without a channel leaves the    *)
(* target as it was.                                                       *)
move_assign_keeps_target(c, i, j) ==
    IF valid(c[j]) THEN [c EXCEPT ![i] = c[j], ![j] = 0] ELSE c

(* c = std::move(other);  i is the target, whose channel is dropped, j the *)
(* source.                                                                 *)
move_assign(c, i, j) == [c EXCEPT ![i] = c[j], ![j] = 0]

(* A scope declares a connection. *)
Declare(i) ==
    /\ cobj[i] = -1
    /\ cobj' = init_ctor(cobj, i)
    /\ UNCHANGED <<conns, mtx, op, faults, notifies, rset>>

(* A scope declares a connection move-constructed from another one. *)
MoveConstruct(i, j) ==
    /\ i # j
    /\ cobj[i] = -1
    /\ cobj[j] >= 0
    /\ cobj' = move_ctor(cobj, i, j)
    /\ UNCHANGED <<conns, mtx, op, faults, notifies, rset>>

(* A scope move-assigns one of its connections to another one. *)
MoveAssign(i, j) ==
    /\ i # j
    /\ cobj[i] >= 0
    /\ cobj[j] >= 0
    /\ cobj' = move_assign(cobj, i, j)
    /\ UNCHANGED <<conns, mtx, op, faults, notifies, rset>>

(* A test case: no pool activity, no connection declared yet. *)
ConnectionInit ==
    /\ conns = <<pooled_connection("not_connected")>>
    /\ mtx = 0
    /\ op = [t \in Tasks |-> get_connection_op]
    /\ faults = 0
    /\ notifies = 0
    /\ cobj = NoConnections
    /\ rset = NoResultset

ConnectionNext ==
    \E i, j \in ConnNames :
       \/ Declare(i)
       \/ MoveConstruct(i, j)
       \/ MoveAssign(i, j)

ConnectionSpec == ConnectionInit /\ [][ConnectionNext]_vars

(* The objects of the test cases after their statements, in order. *)
test_move_ctor_from_invalid ==
    move_ctor(move_ctor(init_ctor(NoConnections, 1), 2, 1), 3, 1)

test_move_ctor_from_valid == move_ctor(init_ctor(NoConnections, 1), 2, 1)

test_move_assign_invalid_to_invalid ==
    move_assign(
       move_ctor(init_ctor(move_ctor(init_ctor(NoConnections, 1), 2, 1), 3),
                 4, 2),
       3, 1)

test_move_assign_invalid_to_valid ==
    move_assign(init_ctor(move_ctor(init_ctor(NoConnections, 1), 2, 1), 3),
                1, 3)

test_move_assign_valid_to_invalid ==
    move_assign(init_ctor(move_ctor(init_ctor(NoConnections, 1), 2, 1), 3),
                3, 1)

test_move_assign_valid_to_valid ==
    move_assign(init_ctor(init_ctor(NoConnections, 1), 2), 1, 2)

----------------------------------------------------------------------------
(* C23: a setup run that has completed successfully has set its entry's    *)
(* state_ to in_use and cleared the diagnostics; one that has completed    *)
(* with an error left its entry not in use (the entry is in use afterwards *)
(* only when another call has succeeded on it).                            *)
C23_SetupPostcondition ==
    \A t \in Tasks :
       /\ op[t].ec = "success"
             => /\ op[t].ret = op[t].conn
                /\ conns[op[t].conn].state_ = "in_use"
                /\ op[t].diag = "empty"
       /\ (Failed(t) /\ conns[op[t].conn].state_ = "in_use")
             => \E u \in Tasks \ {t} :
                   op[u].ec = "success" /\ op[u].ret = op[t].conn

(* One setup has succeeded, the diagnostics it was given now empty, and    *)
(* another one has failed, its entry not in use.                           *)
C23_Witness ==
    \E t, u \in Tasks :
       /\ op[t].ec = "success"
       /\ conns[op[t].ret].state_ = "in_use"
       /\ op[t].diag = "empty"
       /\ Failed(u)
       /\ conns[op[u].conn].state_ = "not_connected"

(* Task t is the one that runs setup on entry e. *)
SetsUp(t, e) == InSetup(t) /\ op[t].conn = e

(* C24: while an entry is locked, its state_ and its session are changed   *)
(* only by steps of the one task that runs setup on it: no other caller    *)
(* and no release touches them.                                            *)
C24_HeldEntryFrame ==
    [][\A e \in 1..N :
          (/\ conns[e].locked_
           /\ \/ conns'[e].state_ # conns[e].state_
              \/ conns'[e].conn_ # conns[e].conn_)
             => \E t \in Tasks :
                   /\ SetsUp(t, e)
                   /\ op'[t] # op[t]
                   /\ \A u \in Tasks \ {t} :
                         ~SetsUp(u, e) /\ op'[u] = op[u]]_vars

(* The holder of a locked entry has replaced its session while another     *)
(* caller was searching or waiting.                                        *)
C24_Witness ==
    \E t, u \in Tasks :
       /\ op[t].pc = "sleep_ping"
       /\ conns[op[t].conn].locked_
       /\ conns[op[t].conn].conn_ = op[t].sess0 + 1
       /\ Searching(u)
       /\ op[u].err = "operation_aborted"

(* C25: a setup run that starts on a pending_reset entry makes no session  *)
(* operation and no backoff wait: it has completed at once, at its first   *)
(* attempt, with success, the entry in use and the diagnostics cleared.    *)
C25_PendingResetShortCircuit ==
    \A t \in Tasks :
       op[t].start = "pending_reset"
          => /\ op[t].pc \in {"done", "released"}
             /\ op[t].ec = "success"
             /\ op[t].ret = op[t].conn
             /\ op[t].attempts = 1
             /\ op[t].num_tries = 0
             /\ op[t].fails = 0
             /\ op[t].sleeps = 0
             /\ op[t].conn_sess = -1
             /\ op[t].diag = "empty"
             /\ conns[op[t].conn].state_ = "in_use"
             /\ conns[op[t].conn].conn_ = op[t].sess0

(* A call was given a pending_reset entry. *)
C25_Witness ==
    \E t \in Tasks :
       /\ op[t].start = "pending_reset"
       /\ op[t].pc = "done"
       /\ op[t].ret # 0

(* C26: within a setup run every failed resolve, connect or ping is        *)
(* followed by exactly one backoff wait, and only the end of that wait     *)
(* starts the next attempt; the failure of the last attempt allowed is     *)
(* followed by a wait as well, at the end of which pool_retries_exhausted  *)
(* is delivered.                                                           *)
C26_BackoffOrdering ==
    [][\A t \in Tasks :
          /\ op'[t].fails = op[t].fails + 1
                => \/ op'[t].pc \in SleepPcs /\ op'[t].sleeps = op[t].sleeps + 1
                   \/ op'[t].pc = "close" /\ op'[t].sleeps = op[t].sleeps
          /\ (op[t].pc = "close" /\ op'[t] # op[t])
                => op'[t].pc = "sleep_ping" /\ op'[t].sleeps = op[t].sleeps + 1
          /\ (InSetup(t) /\ op'[t].attempts = op[t].attempts + 1)
                => /\ op[t].pc \in SleepPcs
                   /\ op[t].sleeps = op[t].attempts
                   /\ op[t].fails = op[t].attempts
                   /\ op'[t].sleeps = op[t].sleeps
          /\ (op[t].ec = "pending" /\ op'[t].ec = "pool_retries_exhausted")
                => /\ op[t].pc \in SleepPcs
                   /\ op[t].fails = max_num_tries
                   /\ op'[t].sleeps = max_num_tries]_vars

(* pool_retries_exhausted was delivered after ten failures and ten waits.  *)
C26_Witness ==
    \E t \in Tasks :
       /\ op[t].ec = "pool_retries_exhausted"
       /\ op[t].sleeps = max_num_tries
       /\ op[t].fail1 = "ping"

(* The sessions the entry of task t has had more than when t's setup       *)
(* started, if only a failed ping replaces a session.                      *)
Replaced(t) ==
    IF op[t].start = "iddle" /\ op[t].fails >= 1 /\ op[t].pc # "close"
    THEN 1 ELSE 0

(* C27: the replacement of the session after a failed ping changes the     *)
(* entry's session and state only (timer, resolver, locked flag and pool   *)
(* reference stay), and no other branch replaces the session: failed       *)
(* resolves and connects go on with the same session object.               *)
C27_SessionReplacementFrame ==
    /\ \A e \in 1..N :
          /\ conns[e].pool_ = 0
          /\ conns[e].resolver_ = 0
          /\ conns[e].timer_ = 0
    /\ \A t \in Tasks :
          InSetup(t)
             => /\ conns[op[t].conn].locked_
                /\ conns[op[t].conn].conn_ = op[t].sess0 + Replaced(t)
                /\ op[t].pc = "sleep_ping"
                      => conns[op[t].conn].state_ = "not_connected"
    /\ \A t \in Tasks :
          op[t].ec = "success"
             => conns[op[t].conn].conn_ = op[t].sess0 + Replaced(t)

(* After a failed ping the session was replaced once, and a failed resolve *)
(* or connect on the new session has not replaced it again.                *)
C27_Witness ==
    \E t \in Tasks :
       /\ op[t].start = "iddle"
       /\ op[t].fails = 2
       /\ op[t].pc \in {"sleep_resolve", "sleep_connect"}
       /\ conns[op[t].conn].conn_ = op[t].sess0 + 1
       /\ conns[op[t].conn].locked_

(* The attempts of task t's setup run that were a resolve, with or without *)
(* the connect after it.                                                   *)
ReconnectAttempts(t) ==
    IF op[t].fail1 = "ping" THEN op[t].attempts - 1 ELSE op[t].attempts

(* C28: the failed ping of a setup run that started on an idle entry uses  *)
(* up one of the max_num_tries attempts: at most max_num_tries - 1         *)
(* resolve/connect attempts follow it, and pool_retries_exhausted comes    *)
(* after exactly that many.                                                *)
C28_PingConsumesAttempt ==
    \A t \in Tasks :
       (op[t].start = "iddle" /\ op[t].fail1 = "ping")
          => /\ ReconnectAttempts(t) <= max_num_tries - 1
             /\ op[t].pc \in {"resolve", "connect"}
                   => ReconnectAttempts(t) = op[t].num_tries
             /\ op[t].ec = "pool_retries_exhausted"
                   => ReconnectAttempts(t) = max_num_tries - 1

(* A run that started with a failed ping ended with pool_retries_exhausted *)
(* after nine reconnection attempts.                                       *)
C28_Witness ==
    \E t \in Tasks :
       /\ op[t].start = "iddle"
       /\ op[t].ec = "pool_retries_exhausted"
       /\ op[t].attempts = max_num_tries
       /\ ReconnectAttempts(t) = 9

(* C29: in_use is absorbing: an entry that a call has been given stays in  *)
(* use, also after the release, and no other call is given it or runs      *)
(* setup on it afterwards; an entry is in use only by having been given.   *)
C29_InUseAbsorbing ==
    /\ \A t \in Tasks :
          op[t].ec = "success"
             => /\ conns[op[t].ret].state_ = "in_use"
                /\ \A u \in Tasks \ {t} :
                      op[u].conn = op[t].ret => Failed(u)
    /\ \A e \in 1..N :
          conns[e].state_ = "in_use" => SucceededOn(e)

(* A released entry is still in use, and a caller that searched after the  *)
(* release waits.                                                          *)
C29_Witness ==
    \E t, u \in Tasks :
       /\ op[t].pc = "released"
       /\ conns[op[t].ret].state_ = "in_use"
       /\ ~conns[op[t].ret].locked_
       /\ op[u].pc = "wait"
       /\ op[u].wait = "armed"
       /\ N = 1

(* The pools whose entries all start in the same state, a fresh pool of    *)
(* not_connected entries among them.                                       *)
UniformSpec == UniformInit /\ [][Next]_vars

(* Every entry is as a pool that has done nothing but connect has it.      *)
NeverIddle == \A e \in 1..N : conns[e].state_ \in {"not_connected", "in_use"}

(* C30: no step sets an entry's state_ to iddle or pending_reset: a state_ *)
(* changes to in_use, or from iddle to not_connected; so a pool whose      *)
(* entries all start not_connected never has an idle or pending_reset one. *)
C30_OnlyInUseAndNotConnectedAssigned ==
    /\ [][\A e \in 1..N :
             conns'[e].state_ # conns[e].state_
                => \/ conns'[e].state_ = "in_use"
                   \/ /\ conns'[e].state_ = "not_connected"
                      /\ conns[e].state_ = "iddle"]_vars
    /\ (\A e \in 1..N : conns[e].state_ = "not_connected") => []NeverIddle

(* In a pool of two entries, none of them idle or pending_reset, one entry *)
(* was given out and a call on the other has failed.                       *)
C30_Witness ==
    /\ N = 2
    /\ NeverIddle
    /\ \E t, u \in Tasks :
          /\ op[t].ec = "success" /\ op[t].start = "not_connected"
          /\ Failed(u) /\ op[u].start = "not_connected"
          /\ op[u].conn # op[t].conn

-----------------------------------------------------------------------------
(* A pool of one entry, in any state, with failures enough to come for one *)
(* setup run to exhaust its tries: every way a call can end is reachable.  *)
OneEntryInit ==
    /\ \E s \in state_t \ {"in_use"} : conns = <<pooled_connection(s)>>
    /\ faults = FaultBudget(1)
    /\ mtx = 0
    /\ op = [t \in Tasks |-> get_connection_op]
    /\ notifies = 0
    /\ cobj = NoConnections
    /\ rset = NoResultset

OneEntrySpec == OneEntryInit /\ [][Next]_vars

(* Task t's get_connection has called its completion handler. *)
Completed(t) == op[t].ec # "pending"

(* C31: get_connection completes with an entry if and only if its error    *)
(* code is success: an error completion carries nullptr, a success         *)
(* completion carries the entry that was selected and set up, and nothing  *)
(* is handed out before the completion.                                    *)
C31_EntryIffSuccess ==
    \A t \in Tasks :
       /\ ~Completed(t) => op[t].ret = 0
       /\ Completed(t) => (op[t].ret # 0 <=> op[t].ec = "success")
       /\ op[t].ec = "success"
             => /\ op[t].ret = op[t].conn
                /\ op[t].conn \in 1..N
                /\ op[t].attempts >= 1
                /\ conns[op[t].ret].state_ = "in_use"

(* One call has completed with an error and no entry, another one has      *)
(* completed with success and the entry.                                   *)
C31_Witness ==
    \E t, u \in Tasks :
       /\ op[t].ec \notin {"pending", "success"} /\ op[t].ret = 0
       /\ op[u].ec = "success" /\ op[u].ret = 1

(* C32: each setup run and each get_connection call invokes its completion *)
(* exactly once on every path: a setup run ends by completing the call, a  *)
(* call is completed by one invocation of its handler and its outcome is   *)
(* never delivered again, and pool_retries_exhausted is delivered only by  *)
(* a run that left the loop with its tries used up, never after a success  *)
(* or a sleep error.                                                       *)
C32_CompletesExactlyOnce ==
    [][\A t \in Tasks :
          /\ op'[t].pc # "completed_twice"
          /\ (InSetup(t) /\ ~(InSetup(t))')
                => ~Completed(t) /\ (Completed(t))'
          /\ (~Completed(t) /\ (Completed(t))') => op'[t].pc = "done"
          /\ Completed(t)
                => /\ op'[t].ec = op[t].ec
                   /\ op'[t].ret = op[t].ret
                   /\ op'[t].pc \in {"done", "released"}
          /\ (~Completed(t) /\ op'[t].ec = "pool_retries_exhausted")
                => /\ op'[t].num_tries = max_num_tries
                   /\ op'[t].fails = max_num_tries]_vars

(* A call has completed inside the loop, with the sleep error of its first *)
(* retry, and stays completed with that error; another call has ended     *)
(* after the loop with pool_retries_exhausted.                             *)
C32_Witness ==
    \E t, u \in Tasks :
       /\ op[t].pc = "done" /\ op[t].ec \in TimerErrors
       /\ op[t].num_tries = 0
       /\ op[u].pc = "done" /\ op[u].ec = "pool_retries_exhausted"

-----------------------------------------------------------------------------
(* resultset: fetching rows, src/include/boost/mysql/impl/resultset.hpp.    *)
(* The server's answer is a sequence of read_row outcomes drawn when the    *)
(* resultset is made; a row is known by its position in that sequence.      *)

read_row_result == {"row", "eof", "error"}

(* The sequences of at most n read_row outcomes. *)
Feeds(n) == UNION {[1..k -> read_row_result] : k \in 0..n}

(* A resultset: its eof_received_ flag, what its channel has yet to        *)
(* deliver and the number of read_row calls made on it.                    *)
resultset(feed) == [eof_received_ |-> FALSE, channel_ |-> feed, reads |-> 0]

(* resultset::complete *)
complete_(r) == r.eof_received_

(* detail::read_row on resultset r: the outcome, the error code it sets    *)
(* and the resultset's channel after it.  A channel with nothing left      *)
(* delivers the end of the rows.                                           *)
read_row(r) ==
    LET result == IF r.channel_ = <<>> THEN "eof" ELSE Head(r.channel_)
    IN  [result |-> result,
         err |-> IF result = "error" THEN "read_error" ELSE "success",
         row |-> r.reads + 1,
         rs |-> [r EXCEPT !.channel_ = IF @ = <<>> THEN @ ELSE Tail(@),
                          !.reads = @ + 1]]

(* Faulty variant of fetch_one: the row is read without a look at          *)
(* complete().                                                             *)
fetch_one_reads_when_complete(r) ==
    LET rd == read_row(r)
    IN  [rs |-> [rd.rs EXCEPT !.eof_received_ = rd.result = "eof"],
         err |-> rd.err,
         row |-> IF rd.result = "row" THEN rd.row ELSE 0]

(* resultset::fetch_one(err, info), lines 18-43: what it leaves of the     *)
(* resultset, the error code and the row returned (0 is nullptr).          *)
fetch_one(r) ==
    IF complete_(r)
    THEN [rs |-> r, err |-> "success", row |-> 0]
    ELSE LET rd == read_row(r)
         IN  [rs |-> [rd.rs EXCEPT !.eof_received_ = rd.result = "eof"],
              err |-> rd.err,
              row |-> IF rd.result = "row" THEN rd.row ELSE 0]

(* The for loop of fetch_many, lines 68-93, from i with res read so far. *)
RECURSIVE fetch_many_for(_, _, _, _)
fetch_many_for(i, count, r, res) ==
    IF i < count
    THEN LET rd == read_row(r)
             r1 == [rd.rs EXCEPT !.eof_received_ = rd.result = "eof"]
         IN  IF rd.result = "row"
             THEN fetch_many_for(i + 1, count, r1, Append(res, rd.row))
             ELSE [rs |-> r1, err |-> rd.err, rows |-> res]
    ELSE [rs |-> r, err |-> "success", rows |-> res]

(* resultset::fetch_many(count, err, info), lines 55-97. *)
fetch_many(count, r) ==
    IF ~complete_(r)
    THEN fetch_many_for(0, count, r, <<>>)
    ELSE [rs |-> r, err |-> "success", rows |-> <<>>]

(* fetch_many_op::impl_struct as its constructor leaves it, lines 202-218. *)
impl_struct(count) == [rows |-> <<>>, remaining |-> count, cont |-> FALSE]

(* Faulty variant of row_received: remaining is not counted down. *)
row_received_keeps_remaining(impl, row) ==
    [impl EXCEPT !.rows = Append(@, row)]

(* impl_struct::row_received, lines 220-226. *)
row_received(impl, row) ==
    [impl EXCEPT !.rows = Append(@, row), !.remaining = @ - 1]

(* The caller has a resultset and no fetch has been called on it. *)
no_fetch(feed) ==
    [rs |-> resultset(feed), start |-> resultset(feed),
     call |-> "none", count |-> 0, pc |-> "idle",
     impl |-> impl_struct(0),
     err |-> "success", row |-> 0, rows |-> <<>>, handled |-> 0]

(* A fetch is called on x's resultset: the resultset as the call finds it  *)
(* is remembered, and no handler has been invoked for the call.            *)
called(x, name, count) ==
    [x EXCEPT !.call = name, !.count = count, !.start = x.rs,
              !.impl = impl_struct(count),
              !.err = "success", !.row = 0, !.rows = <<>>, !.handled = 0]

(* self.complete(err, row or rows): the completion handler is invoked. *)
self_complete(x, err, row, rows) ==
    [x EXCEPT !.pc = "idle", !.handled = @ + 1,
              !.err = err, !.row = row, !.rows = rows]

(* Faulty variant of post: the operation goes on at once, inside the call  *)
(* that would have posted it.                                              *)
post_runs_inline(x) ==
    IF x.call = "async_fetch_one"
    THEN self_complete(x, "success", 0, <<>>)
    ELSE self_complete(x, x.err, 0, x.impl.rows)

(* yield boost::asio::post(...), lines 151 and 300-301: the operation is   *)
(* suspended until the executor runs it.                                   *)
post(x) == [x EXCEPT !.pc = "post"]

(* fetch_one_op::operator() from its start, lines 148-164. *)
fetch_one_op(x) ==
    IF complete_(x.rs) THEN post(x) ELSE [x EXCEPT !.pc = "read"]

(* fetch_many_op::operator() from the condition of its while loop, lines   *)
(* 265 and 293-303; err is the error code of the current resumption.       *)
fetch_many_op(x) ==
    IF ~complete_(x.rs) /\ x.impl.remaining > 0
    THEN [x EXCEPT !.impl.cont = TRUE, !.pc = "read"]
    ELSE IF ~x.impl.cont
    THEN post(x)
    ELSE self_complete(x, x.err, 0, x.impl.rows)

Idle == rset.pc = "idle"

(* The caller calls fetch_one, which returns. *)
FetchOne ==
    /\ Idle
    /\ LET res == fetch_one(rset.rs)
       IN  rset' = [called(rset, "fetch_one", 0) EXCEPT
                       !.rs = res.rs, !.err = res.err, !.row = res.row]
    /\ UNCHANGED <<conns, mtx, op, faults, notifies, cobj>>

(* The caller calls fetch_many(count), which returns. *)
FetchMany(count) ==
    /\ Idle
    /\ LET res == fetch_many(count, rset.rs)
       IN  rset' = [called(rset, "fetch_many", count) EXCEPT
                       !.rs = res.rs, !.err = res.err, !.rows = res.rows]
    /\ UNCHANGED <<conns, mtx, op, faults, notifies, cobj>>

(* async_fetch_one, lines 175-193: async_compose runs the operation to its *)
(* first suspension before the call returns.                               *)
AsyncFetchOne ==
    /\ Idle
    /\ rset' = fetch_one_op(called(rset, "async_fetch_one", 0))
    /\ UNCHANGED <<conns, mtx, op, faults, notifies, cobj>>

(* async_fetch_many(count), lines 309-331. *)
AsyncFetchMany(count) ==
    /\ Idle
    /\ rset' = fetch_many_op(called(rset, "async_fetch_many", count))
    /\ UNCHANGED <<conns, mtx, op, faults, notifies, cobj>>

(* The posted operation is run by the executor: fetch_one_op completes     *)
(* with no error and no row (152), fetch_many_op with the error code that  *)
(* was bound and its rows (304).                                           *)
PostDone ==
    /\ rset.pc = "post"
    /\ rset' = IF rset.call = "async_fetch_one"
               THEN self_complete(rset, "success", 0, <<>>)
               ELSE self_complete(rset, rset.err, 0, rset.impl.rows)
    /\ UNCHANGED <<conns, mtx, op, faults, notifies, cobj>>

(* async_read_row completes and resumes the operation: fetch_one_op lines  *)
(* 165-169, fetch_many_op lines 279-292 and on from the loop's condition.  *)
ReadRowDone ==
    /\ rset.pc = "read"
    /\ LET rd == read_row(rset.rs)
           x == [rset EXCEPT !.rs = rd.rs, !.err = rd.err]
       IN  rset' =
             IF rset.call = "async_fetch_one"
             THEN self_complete(
                     [x EXCEPT !.rs.eof_received_ = rd.result = "eof"],
                     rd.err, IF rd.result = "row" THEN rd.row ELSE 0, <<>>)
             ELSE IF rd.result = "error"
             THEN self_complete(x, rd.err, 0, x.impl.rows)
             ELSE IF rd.result = "eof"
             THEN fetch_many_op([x EXCEPT !.rs.eof_received_ = TRUE])
             ELSE fetch_many_op(
                     [x EXCEPT !.impl = row_received(@, rd.row)])
    /\ UNCHANGED <<conns, mtx, op, faults, notifies, cobj>>

(* A query has returned a resultset whose rows are still on the channel;   *)
(* no pool activity.                                                       *)
ResultsetInit ==
    /\ conns = <<pooled_connection("not_connected")>>
    /\ mtx = 0
    /\ op = [t \in Tasks |-> get_connection_op]
    /\ faults = 0
    /\ notifies = 0
    /\ cobj = NoConnections
    /\ \E feed \in Feeds(MaxFeed) : rset = no_fetch(feed)

ResultsetNext ==
    \/ FetchOne
    \/ AsyncFetchOne
    \/ \E count \in 0..MaxCount :
          \/ FetchMany(count)
          \/ AsyncFetchMany(count)
    \/ PostDone
    \/ ReadRowDone

ResultsetSpec == ResultsetInit /\ [][ResultsetNext]_vars

(* A fetch call has been made and found the resultset complete. *)
FoundComplete == rset.call # "none" /\ complete_(rset.start)

(* C33: a fetch from a resultset that is already complete (EOF received)   *)
(* reads nothing from the channel and leaves the resultset as it was:      *)
(* fetch_one and async_fetch_one give a null row and no error, fetch_many  *)
(* and async_fetch_many an empty list and no error.                        *)
C33_FetchWhenCompleteReadsNothing ==
    FoundComplete
       => /\ rset.rs = rset.start
          /\ rset.pc \in {"idle", "post"}
          /\ rset.err = "success"
          /\ rset.row = 0
          /\ rset.rows = <<>>
          /\ rset.impl.rows = <<>>

(* async_fetch_one has completed on a resultset whose rows and EOF had     *)
(* been read before the call.                                              *)
C33_Witness ==
    /\ FoundComplete
    /\ rset.call = "async_fetch_one"
    /\ rset.pc = "idle"
    /\ rset.handled = 1
    /\ rset.start.reads >= 2

(* The i-th outcome read_row gives on resultset r, counted from r. *)
Outcome(r, i) == IF i <= Len(r.channel_) THEN r.channel_[i] ELSE "eof"

(* fetch_many or async_fetch_many has returned or completed. *)
FetchedMany ==
    rset.call \in {"fetch_many", "async_fetch_many"} /\ rset.pc = "idle"

(* C34: fetch_many(count) and async_fetch_many(count) give the same result *)
(* for the same outcomes of read_row: the rows read, in order, up to the   *)
(* first of count rows, EOF and a read error; at most count rows; the      *)
(* resultset becomes complete exactly when EOF was read; and the rows read *)
(* before an error are returned with the error.                            *)
C34_FetchManySyncAsyncAgree ==
    FetchedMany
       => LET start == rset.start
              k == rset.rs.reads - start.reads
              n == Len(rset.rows)
              sync == fetch_many(rset.count, start)
          IN  /\ rset.rs = sync.rs
              /\ rset.err = sync.err
              /\ rset.rows = sync.rows
              /\ n <= rset.count
              /\ rset.rows = [i \in 1..n |-> start.reads + i]
              /\ \A i \in 1..n : Outcome(start, i) = "row"
              /\ \/ k = n /\ (n = rset.count \/ complete_(start))
                 \/ k = n + 1 /\ Outcome(start, k) \in {"eof", "error"}
              /\ ~complete_(start)
                    => (complete_(rset.rs)
                          <=> (k > 0 /\ Outcome(start, k) = "eof"))
              /\ rset.err # "success"
                    <=> (~complete_(start) /\ k > 0
                           /\ Outcome(start, k) = "error")

(* async_fetch_many(2) has completed with a read error and the one row    *)
(* read before it.                                                         *)
C34_Witness ==
    /\ FetchedMany
    /\ rset.call = "async_fetch_many"
    /\ rset.count = 2
    /\ rset.handled = 1
    /\ rset.err = "read_error"
    /\ Len(rset.rows) = 1
    /\ ~complete_(rset.rs)

(* This step is the initiating call of an asynchronous fetch. *)
Initiates ==
    /\ rset.pc = "idle"
    /\ rset'.call \in {"async_fetch_one", "async_fetch_many"}

(* The fetch that is called needs no read: the resultset is complete, or   *)
(* no row is asked for.                                                    *)
NoReadNeeded ==
    \/ complete_(rset.rs)
    \/ rset'.call = "async_fetch_many" /\ rset'.count = 0

(* C35: async_fetch_one and async_fetch_many never invoke the completion   *)
(* handler from inside the initiating call: the call returns with the      *)
(* operation suspended on a read or, when no read is needed, on a post to  *)
(* the executor, and the handler is invoked exactly once, by the step that *)
(* resumes the operation.                                                  *)
C35_NoCompletionInsideInitiation ==
    [][/\ Initiates
          => /\ rset'.handled = 0
             /\ rset'.pc = IF NoReadNeeded THEN "post" ELSE "read"
             /\ rset'.rs = rset.rs
       /\ rset.pc = "post"
          => /\ rset'.pc = "idle"
             /\ rset.handled = 0 /\ rset'.handled = 1
             /\ rset'.rs = rset.rs
       /\ rset.pc = "read"
          => /\ rset.handled = 0
             /\ rset'.pc = "idle" <=> rset'.handled = 1
             /\ rset'.pc # "idle" => rset'.pc = "read" /\ rset'.handled = 0
       /\ rset'.handled <= 1]_vars

(* async_fetch_many(0) on a resultset that still has rows has been posted  *)
(* and its handler has not been invoked yet.                               *)
C35_Witness ==
    /\ rset.call = "async_fetch_many"
    /\ rset.count = 0
    /\ rset.pc = "post"
    /\ rset.handled = 0
    /\ ~complete_(rset.rs)
    /\ rset.rs.reads >= 1

====
